---- MODULE Spec2Model ----
(***************************************************************************)
(* Resonera: the audio synthesis core (resonera/audio) and the request     *)
(* handlers that drive it.                                                 *)
(*                                                                         *)
(* Number representation                                                   *)
(*   frequencies  integers in milli-Hz (10.005 Hz = 10005)                 *)
(*   durations    exact rationals <<num, den>> in seconds, den > 0         *)
(*   amplitudes   integers in units of 1e-9 (0.7 = 700000000)              *)
(* Python floats are modelled by these exact values; a division that the   *)
(* grid cannot hold is floored to the grid.                                *)
(***************************************************************************)
EXTENDS Integers, Sequences, FiniteSets, TLC

VARIABLES
    has_last,        \* hasattr(audio_generator, '_last_frequency')
    last_frequency,  \* audio_generator._last_frequency (milli-Hz), when has_last
    pc,              \* per request thread: the line of generate it stands at
    call,            \* per request thread: the arguments of its generate call
    loc,             \* per request thread: the locals of its generate call
    session_prior,   \* history: per user, the frequency that user's last generate recorded
    fn,              \* pure-function harness: the function last applied
    fn_args,         \* pure-function harness: its arguments
    fn_result,       \* pure-function harness: what it returned or raised
    MAX_FREQUENCY,   \* current_app.config['MAX_FREQUENCY'] (milli-Hz)
    sessions,        \* the Session table: the row with id i at index i
    safety_logs,     \* the SafetyLog table, in insertion order
    request          \* per request thread: the request it handles or handled last

vars == <<has_last, last_frequency, pc, call, loc, session_prior, fn, fn_args, fn_result,
          MAX_FREQUENCY, sessions, safety_logs, request>>
gen_vars == <<has_last, last_frequency, pc, call, loc, session_prior>>
fn_vars == <<fn, fn_args, fn_result>>
svc_vars == <<MAX_FREQUENCY, sessions, safety_logs, request>>

----------------------------------------------------------------------------
(* Bounds of the model *)

\* Samples per second the components are constructed with.  AudioGenerator
\* fixes 44100; FrequencyTransition and HarmonicOvertoneGenerator take it as
\* a constructor argument.  The model runs the same code at a low rate so
\* that every sample of a buffer can be enumerated.
SampleRate == 20

----------------------------------------------------------------------------
(* Arithmetic helpers *)

Abs(x) == IF x < 0 THEN -x ELSE x
Min(a, b) == IF a <= b THEN a ELSE b
Max(a, b) == IF a >= b THEN a ELSE b

\* floor(a / b), b # 0
FloorDiv(a, b) == IF b > 0 THEN a \div b ELSE (-a) \div (-b)
\* int(np.ceil(a / b)), b # 0
CeilDiv(a, b) == -FloorDiv(-a, b)
\* int(a / b): truncation toward zero, b # 0
TruncDiv(a, b) ==
    IF (a >= 0) = (b > 0) THEN Abs(a) \div Abs(b) ELSE -(Abs(a) \div Abs(b))

\* Rational durations <<num, den>>, den > 0
RatLe(a, b) == a[1] * b[2] <= b[1] * a[2]
RatLt(a, b) == a[1] * b[2] < b[1] * a[2]
RatEq(a, b) == a[1] * b[2] = b[1] * a[2]
RatPos(a) == a[1] > 0
RatMin(a, b) == IF RatLe(a, b) THEN a ELSE b
RatSub(a, b) == <<a[1] * b[2] - b[1] * a[2], a[2] * b[2]>>
RatQuarter(a) == <<a[1], a[2] * 4>>

\* int(sample_rate * duration): the number of samples of a buffer
NumSamples(duration) == TruncDiv(SampleRate * duration[1], duration[2])

\* The one element of a singleton set.  {F(x) : x \in {e}} evaluates e once
\* and names its value x, as an assignment to a local does.
The(S) == CHOOSE x \in S : TRUE

----------------------------------------------------------------------------
(* resonera/audio/harmonics.py: HarmonicCalculator *)

\* self.harmonic_ratios, in list order, in thousandths
harmonic_ratios == <<1000, 2000, 1500, 1333, 1250, 1200>>

\* np.abs(harmonics - target_freq), entry i, in micro-Hz
HarmonicDistance(base_freq, target_freq, i) ==
    Abs(base_freq * harmonic_ratios[i] - 1000 * target_freq)

\* argmin keeping the last of several equally close entries
find_nearest_harmonic_last(base_freq, target_freq) ==
    LET idx == CHOOSE i \in 1..Len(harmonic_ratios) :
                   /\ \A j \in 1..Len(harmonic_ratios) :
                          HarmonicDistance(base_freq, target_freq, i)
                              <= HarmonicDistance(base_freq, target_freq, j)
                   /\ \A j \in (i + 1)..Len(harmonic_ratios) :
                          HarmonicDistance(base_freq, target_freq, i)
                              < HarmonicDistance(base_freq, target_freq, j)
    IN [harmonic |-> base_freq * harmonic_ratios[idx], ratio |-> harmonic_ratios[idx]]

\* find_nearest_harmonic: (harmonics[idx], ratios[idx]), the harmonic in
\* micro-Hz; np.argmin returns the first index of the minimum
find_nearest_harmonic(base_freq, target_freq) ==
    LET idx == CHOOSE i \in 1..Len(harmonic_ratios) :
                   /\ \A j \in 1..Len(harmonic_ratios) :
                          HarmonicDistance(base_freq, target_freq, i)
                              <= HarmonicDistance(base_freq, target_freq, j)
                   /\ \A j \in 1..(i - 1) :
                          HarmonicDistance(base_freq, target_freq, i)
                              < HarmonicDistance(base_freq, target_freq, j)
    IN [harmonic |-> base_freq * harmonic_ratios[idx], ratio |-> harmonic_ratios[idx]]

\* `while ratio > 2.0: ratio /= 2.0` on the ratio num / den (den > 0): the
\* denominator of the halved ratio
RECURSIVE HalvedDen(_, _)
HalvedDen(num, den) ==
    IF num > 2 * den THEN HalvedDen(num, 2 * den) ELSE den

\* _decompose_ratio on the ratio num / den (den > 0): <<1, 1>> (1.0) when the
\* halved ratio is within 0.01 of a harmonic ratio, the halved ratio otherwise
decompose_ratio(num, den) ==
    The({ IF \E i \in 1..Len(harmonic_ratios) :
                 Abs(1000 * num - harmonic_ratios[i] * halved) < 10 * halved
          THEN <<1, 1>>
          ELSE <<num, halved>> :
          halved \in {HalvedDen(num, den)} })

\* The power of two that `while reduced_ratio > 2.0: reduced_ratio /= 2.0`
\* divides out of the integer ratio m, starting from p
RECURSIVE HalvingPower(_, _)
HalvingPower(m, p) ==
    IF m > 2 * p THEN HalvingPower(m, 2 * p) ELSE p

\* the match with a tolerance of 0.1 instead of 0.01
MatchesReducedCoarse(m, p) ==
    \E i \in 1..Len(harmonic_ratios) :
        Abs(1000 * m - harmonic_ratios[i] * p) < 100 * p

\* abs(reduced_ratio - harmonic) < 0.01 for some harmonic, given the
\* unreduced ratio m and the power of two p divided out of it
MatchesReduced(m, p) ==
    \E i \in 1..Len(harmonic_ratios) :
        Abs(1000 * m - harmonic_ratios[i] * p) < 10 * p

\* the inner loop over self.harmonic_ratios for the integer ratio
\* m = carrier / target_freq
MatchesHarmonic(m) == MatchesReduced(m, HalvingPower(m, 1))

\* core_carriers: the tabulated carrier of a core frequency
core_carriers == [f \in {10000, 6000, 2000} |->
                    IF f = 10000 THEN 200000 ELSE IF f = 6000 THEN 288000 ELSE 256000]

\* the `if abs(target_freq - 10.0) < 0.01 or ...` test
IsCoreFrequency(target_freq) ==
    \/ Abs(target_freq - 10000) < 10
    \/ Abs(target_freq - 6000) < 10
    \/ Abs(target_freq - 2000) < 10

\* `for multiplier in range(min_multiplier, max_multiplier + 1)`: the loop
\* ends at the first multiplier whose carrier exceeds max_carrier (break) or
\* whose reduced ratio matches (return carrier)
ScanMultipliers(target_freq, min_multiplier, max_multiplier, min_carrier, max_carrier) ==
    LET ends == {m \in min_multiplier..max_multiplier :
                    target_freq * m > max_carrier \/ MatchesHarmonic(m)}
        first == CHOOSE m \in ends : \A k \in ends : m <= k
    IN IF ends = {} THEN min_carrier
       ELSE IF target_freq * first > max_carrier THEN min_carrier
       ELSE target_freq * first

\* optimize_carrier_frequency returning the tabulated carrier without the
\* range test
optimize_carrier_frequency_unchecked(target_freq, min_carrier, max_carrier) ==
    IF IsCoreFrequency(target_freq) /\ target_freq \notin DOMAIN core_carriers
    THEN [err |-> "KeyError", carrier |-> 0]
    ELSE IF IsCoreFrequency(target_freq)
    THEN [err |-> "", carrier |-> core_carriers[target_freq]]
    ELSE IF target_freq = 0
    THEN [err |-> "ZeroDivisionError", carrier |-> 0]
    ELSE [err |-> "",
          carrier |-> ScanMultipliers(target_freq,
                                      CeilDiv(min_carrier, target_freq),
                                      TruncDiv(max_carrier, target_freq),
                                      min_carrier, max_carrier)]

\* optimize_carrier_frequency: [err, carrier]
optimize_carrier_frequency(target_freq, min_carrier, max_carrier) ==
    IF IsCoreFrequency(target_freq) /\ target_freq \notin DOMAIN core_carriers
    THEN [err |-> "KeyError", carrier |-> 0]
    ELSE IF /\ IsCoreFrequency(target_freq)
            /\ core_carriers[target_freq] >= min_carrier
            /\ core_carriers[target_freq] <= max_carrier
    THEN [err |-> "", carrier |-> core_carriers[target_freq]]
    ELSE IF target_freq = 0
    THEN [err |-> "ZeroDivisionError", carrier |-> 0]
    ELSE [err |-> "",
          carrier |-> ScanMultipliers(target_freq,
                                      CeilDiv(min_carrier, target_freq),
                                      TruncDiv(max_carrier, target_freq),
                                      min_carrier, max_carrier)]

\* abs(remainder - 1.0) < 0.1 for the remainder r = <<num, den>>
NearUnison(r) == 10 * Abs(r[1] - r[2]) < r[2]

\* validate_frequency_combination for freq1, freq2 >= 0 and max_ratio in
\* thousandths: [err, ok]
validate_frequency_combination(freq1, freq2, max_ratio) ==
    IF Min(freq1, freq2) = 0
    THEN [err |-> "ZeroDivisionError", ok |-> FALSE]
    ELSE [err |-> "",
          ok |-> \/ NearUnison(decompose_ratio(Max(freq1, freq2), Min(freq1, freq2)))
                 \/ 1000 * Max(freq1, freq2) <= max_ratio * Min(freq1, freq2)]

----------------------------------------------------------------------------
(* resonera/audio/harmonics.py: HarmonicOvertoneGenerator *)

\* self.safety_limits
max_frequency == 1000000
max_harmonics == 5
min_amplitude == 100000000
\* amplitude *= 0.7
Decay(amplitude) == (amplitude \div 10) * 7

\* the overtone loop testing the amplitude before the decay instead of after
RECURSIVE OvertoneLoopEarlyTest(_, _, _)
OvertoneLoopEarlyTest(fundamental, n, amplitude) ==
    IF n > max_harmonics THEN <<>>
    ELSE IF fundamental * n > max_frequency THEN <<>>
    ELSE IF amplitude < min_amplitude THEN <<>>
    ELSE <<<<fundamental * n, Decay(amplitude)>>>>
         \o OvertoneLoopEarlyTest(fundamental, n + 1, Decay(amplitude))

\* The overtone loop from harmonic n on: the <<frequency, amplitude>> pairs it adds
RECURSIVE OvertoneLoop(_, _, _)
OvertoneLoop(fundamental, n, amplitude) ==
    IF n > max_harmonics THEN <<>>
    ELSE IF fundamental * n > max_frequency THEN <<>>
    ELSE IF Decay(amplitude) < min_amplitude THEN <<>>
    ELSE <<<<fundamental * n, Decay(amplitude)>>>>
         \o OvertoneLoop(fundamental, n + 1, Decay(amplitude))

\* the guards with the upper one rejecting max_frequency itself
FundamentalValidStrict(fundamental) ==
    ~(fundamental <= 0) /\ ~(fundamental >= max_frequency)

\* the guards without the upper one
FundamentalValidNoUpper(fundamental) == ~(fundamental <= 0)

\* the two `raise ValueError` guards on the fundamental
FundamentalValid(fundamental) ==
    ~(fundamental <= 0) /\ ~(fundamental > max_frequency)

\* generate_overtones: [err, parts, n].  A buffer is held as the sinusoids
\* summed into it (parts: <<frequency, amplitude>>, before the final uniform
\* peak rescaling) and its number of samples n.  np.linspace rejects a
\* negative number of samples, and np.max at line 275 has no value on an
\* empty buffer: both raise ValueError.
generate_overtones(fundamental, duration, base_amplitude) ==
    IF ~FundamentalValid(fundamental)
    THEN [err |-> "InvalidFrequency", parts |-> <<>>, n |-> 0]
    ELSE IF NumSamples(duration) <= 0
    THEN [err |-> "ValueError", parts |-> <<>>, n |-> 0]
    ELSE [err |-> "",
          parts |-> <<<<fundamental, base_amplitude>>>>
                    \o OvertoneLoop(fundamental, 2, base_amplitude),
          n |-> NumSamples(duration)]

\* the defaults of optimize_carrier_frequency's min_carrier and max_carrier
default_min_carrier == 200000
default_max_carrier == 1000000

\* generate_enhanced_frequency: [err, parts, n]; parts holds what was
\* synthesized before a failure as well
generate_enhanced_frequency(target_freq, duration, base_amplitude) ==
    The({ IF opt.err # "" THEN [err |-> opt.err, parts |-> <<>>, n |-> 0]
          ELSE The({ IF carrier_signal.err # "" THEN carrier_signal
                     ELSE IF target_signal.err # ""
                     THEN [err |-> target_signal.err,
                           parts |-> carrier_signal.parts, n |-> 0]
                     ELSE [err |-> "",
                           parts |-> carrier_signal.parts \o target_signal.parts,
                           n |-> carrier_signal.n] :
                     carrier_signal \in {generate_overtones(opt.carrier, duration,
                                            (base_amplitude \div 10) * 6)},
                     target_signal \in {generate_overtones(target_freq, duration,
                                            (base_amplitude \div 10) * 4)} }) :
          opt \in {optimize_carrier_frequency(target_freq, default_min_carrier,
                                              default_max_carrier)} })

----------------------------------------------------------------------------
(* resonera/audio/transitions.py: FrequencyTransition *)

\* A curve is [err, nan, f]: f the frequency samples; nan says that the
\* samples are float NaN (their entries in f are then meaningless).
Curve(samples) == [err |-> "", nan |-> FALSE, f |-> samples]
CurveError(e) == [err |-> e, nan |-> FALSE, f |-> <<>>]

\* np.linspace(start, end, num) on the milli-Hz grid
Linspace(start, end, num) ==
    [i \in 1..num |->
        IF i = 1 THEN start
        ELSE IF i = num THEN end
        ELSE start + FloorDiv((end - start) * (i - 1), num - 1)]

linear_transition(start_freq, end_freq, duration) ==
    LET num_steps == NumSamples(duration)
    IN IF num_steps < 0 THEN CurveError("ValueError")
       ELSE Curve(Linspace(start_freq, end_freq, num_steps))

\* curve = 2.0: start + (end - start) * t^2 for t = linspace(0, 1, num_steps)
exponential_transition(start_freq, end_freq, duration) ==
    LET num_steps == NumSamples(duration)
    IN IF num_steps < 0 THEN CurveError("ValueError")
       ELSE Curve([i \in 1..num_steps |->
                IF i = 1 THEN start_freq
                ELSE start_freq
                     + FloorDiv(FloorDiv((end_freq - start_freq) * (i - 1), num_steps - 1)
                                * (i - 1), num_steps - 1)])

\* 1 / (1 + exp(-t)) at t = -3, -2.5, ..., 3 (smoothness = 6.0), in millionths
logistic_table == <<47426, 75858, 119203, 182426, 268941, 377541, 500000,
                    622459, 731059, 817574, 880797, 924142, 952574>>

\* the logistic at sample i of np.linspace(-3, 3, num), num >= 2, read off
\* the table with linear interpolation
Logistic(i, num) ==
    LET pos == 12 * (i - 1)
        k == pos \div (num - 1)
        r == pos % (num - 1)
    IN IF k >= 12 THEN logistic_table[13]
       ELSE logistic_table[k + 1]
            + ((logistic_table[k + 2] - logistic_table[k + 1]) * r) \div (num - 1)

sigmoid_transition(start_freq, end_freq, duration) ==
    LET num_steps == NumSamples(duration)
    IN IF num_steps < 0 THEN CurveError("ValueError")
       ELSE IF num_steps = 0 THEN CurveError("IndexError")   \* sigmoid[0] of an empty array
       ELSE IF num_steps = 1                                  \* 0 / 0
       THEN [err |-> "", nan |-> TRUE, f |-> <<0>>]
       ELSE Curve([i \in 1..num_steps |->
                start_freq
                + FloorDiv((end_freq - start_freq)
                           * (((Logistic(i, num_steps) - Logistic(1, num_steps)) * 1000)
                              \div (Logistic(num_steps, num_steps) - Logistic(1, num_steps))),
                           1000)])

\* the three curve shapes
TransitionTypes == {"linear", "exponential", "sigmoid"}

\* get_transition_points raising only when there are more frequencies than
\* timestamps
get_transition_points_lenient(frequencies, timestamps) ==
    IF Len(frequencies) > Len(timestamps)
    THEN [err |-> "LengthMismatch", points |-> <<>>]
    ELSE [err |-> "",
          points |-> [i \in 1..(Len(frequencies) - 1) |->
                         <<timestamps[i], timestamps[i + 1],
                           timestamps[i + 1] - timestamps[i]>>]]

\* get_transition_points: [err, points]; LengthMismatch is the
\* `raise ValueError("frequencies and timestamps must have same length")`
get_transition_points(frequencies, timestamps) ==
    IF Len(frequencies) # Len(timestamps)
    THEN [err |-> "LengthMismatch", points |-> <<>>]
    ELSE [err |-> "",
          points |-> [i \in 1..(Len(frequencies) - 1) |->
                         <<timestamps[i], timestamps[i + 1],
                           timestamps[i + 1] - timestamps[i]>>]]

calculate_optimal_duration(start_freq, end_freq) ==
    LET freq_diff == Abs(end_freq - start_freq)
    IN IF freq_diff < 2000 THEN <<5, 1>>
       ELSE IF freq_diff < 5000 THEN <<10, 1>>
       ELSE <<20, 1>>

----------------------------------------------------------------------------
(* resonera/audio/generator.py: AudioGenerator *)

\* self.carrier_frequency
carrier_frequency == 440000

\* the carrier of the last (gamma) arm of get_optimal_carrier_frequency
gamma_carrier == 500000

get_optimal_carrier_frequency(target_frequency) ==
    IF target_frequency <= 4000 THEN 100000
    ELSE IF target_frequency <= 8000 THEN 200000
    ELSE IF target_frequency <= 14000 THEN 440000
    ELSE gamma_carrier

\* the frequencies of the sinusoids of a buffer
Frequencies(parts) == {parts[i][1] : i \in 1..Len(parts)}

\* generate_binaural_beat: [err, freqs, n_left, n_right]; freqs are the
\* frequencies of every sinusoid synthesized, up to a failure included
generate_binaural_beat(target_frequency, duration, volume) ==
    The({ IF left_channel.err # ""
          THEN [err |-> left_channel.err, freqs |-> Frequencies(left_channel.parts),
                n_left |-> 0, n_right |-> 0]
          ELSE The({ [err |-> right_channel.err,
                      freqs |-> Frequencies(left_channel.parts)
                                \cup Frequencies(right_channel.parts),
                      n_left |-> left_channel.n, n_right |-> right_channel.n] :
                     right_channel \in {generate_enhanced_frequency(
                         get_optimal_carrier_frequency(target_frequency) + target_frequency,
                         duration, volume)} }) :
          left_channel \in {generate_enhanced_frequency(
              get_optimal_carrier_frequency(target_frequency), duration, volume)} })

\* generate_binaural_beat on a NaN sample: every comparison with NaN is
\* false, so the carrier is the gamma one; the right channel's
\* optimize_carrier_frequency then fails in int(np.ceil(nan))
generate_binaural_beat_nan(duration, volume) ==
    The({ [err |-> IF left_channel.err # "" THEN left_channel.err ELSE "ValueError",
           freqs |-> Frequencies(left_channel.parts), n_left |-> 0, n_right |-> 0] :
          left_channel \in {generate_enhanced_frequency(gamma_carrier, duration, volume)} })

\* generate_isochronic_tone: [err, freqs, n]; the modulation envelope has
\* the length of t, the carrier that of generate_enhanced_frequency
generate_isochronic_tone(frequency, duration, volume) ==
    IF NumSamples(duration) < 0 THEN [err |-> "ValueError", freqs |-> {}, n |-> 0]
    ELSE The({ [err |-> carrier.err, freqs |-> Frequencies(carrier.parts), n |-> carrier.n] :
               carrier \in {generate_enhanced_frequency(carrier_frequency, duration, volume)} })

\* volume * 0.5
HalfVolume(volume) == (volume \div 10) * 5

\* 1 / self.sample_rate, the duration of one transition step
StepDuration == <<1, SampleRate>>

\* What the synthesis of a call has produced so far
NoAudio == [err |-> "", freqs |-> {}, n_left |-> 0, n_right |-> 0, n_iso |-> 0]

\* a binaural pair b and an isochronic tone iso as np.append adds them
Appended(b, iso) ==
    IF b.err # ""
    THEN [err |-> b.err, freqs |-> b.freqs, n_left |-> 0, n_right |-> 0, n_iso |-> 0]
    ELSE [err |-> iso.err, freqs |-> b.freqs \cup iso.freqs,
          n_left |-> IF iso.err = "" THEN b.n_left ELSE 0,
          n_right |-> IF iso.err = "" THEN b.n_right ELSE 0,
          n_iso |-> iso.n]

\* one pass of `for freq in freq_curve`: the step's binaural pair and
\* isochronic tone
TransitionStep(curve, i, volume) ==
    Appended(IF curve.nan
             THEN generate_binaural_beat_nan(StepDuration, HalfVolume(volume))
             ELSE generate_binaural_beat(curve.f[i], StepDuration, HalfVolume(volume)),
             generate_isochronic_tone(curve.f[i], StepDuration, HalfVolume(volume)))

\* the passes up to the first that raises; the buffers hold the samples
\* np.append has added, one slot <<pass, k>> each
Passes(pass, num) ==
    LET raising == {i \in 1..num : pass[i].err # ""}
        last == IF raising = {} THEN num
                ELSE CHOOSE i \in raising : \A j \in raising : i <= j
        appended == IF raising = {} THEN num ELSE last - 1
    IN [err |-> IF raising = {} THEN "" ELSE pass[last].err,
        freqs |-> UNION {pass[i].freqs : i \in 1..last},
        n_left |-> Cardinality(UNION {{<<i, k>> : k \in 1..pass[i].n_left} : i \in 1..appended}),
        n_right |-> Cardinality(UNION {{<<i, k>> : k \in 1..pass[i].n_right} : i \in 1..appended}),
        n_iso |-> Cardinality(UNION {{<<i, k>> : k \in 1..pass[i].n_iso} : i \in 1..appended})]

\* `for freq in freq_curve`
TransitionLoop(curve, volume) ==
    Passes([i \in 1..Len(curve.f) |-> TransitionStep(curve, i, volume)], Len(curve.f))

\* acc with one more segment seg appended
Extended(acc, seg) ==
    IF seg.err # ""
    THEN [acc EXCEPT !.err = seg.err, !.freqs = @ \cup seg.freqs]
    ELSE [err |-> "",
          freqs |-> acc.freqs \cup seg.freqs,
          n_left |-> acc.n_left + seg.n_left,
          n_right |-> acc.n_right + seg.n_right,
          n_iso |-> acc.n_iso + seg.n_iso]

\* one steady-state segment appended to acc: generate_binaural_beat, then
\* generate_isochronic_tone, then the np.append calls
SteadySegment(frequency, duration, volume, acc) ==
    Extended(acc, Appended(generate_binaural_beat(frequency, duration, HalfVolume(volume)),
                           generate_isochronic_tone(frequency, duration, HalfVolume(volume))))

\* the comparison alone, without the hasattr test
NeedsTransitionNoHasattr(has, last, frequency) == last # frequency

\* `hasattr(self, '_last_frequency') and self._last_frequency != frequency`
NeedsTransition(has, last, frequency) == has /\ last # frequency

\* the optimal duration alone, without the cap at duration / 4
TransitionDurationUncapped(last, frequency, duration) ==
    calculate_optimal_duration(last, frequency)

\* min(calculate_optimal_duration(last, frequency), duration / 4)
TransitionDuration(last, frequency, duration) ==
    RatMin(calculate_optimal_duration(last, frequency), RatQuarter(duration))

\* the curve of the chosen transition type
FrequencyCurve(transition_type, last, frequency, transition_duration) ==
    IF transition_type = "linear"
    THEN linear_transition(last, frequency, transition_duration)
    ELSE IF transition_type = "exponential"
    THEN exponential_transition(last, frequency, transition_duration)
    ELSE sigmoid_transition(last, frequency, transition_duration)

\* a store that keeps the value already recorded
RecordedFrequencyStale(last, frequency) == last

\* the value `self._last_frequency = frequency` stores
RecordedFrequency(last, frequency) == frequency

\* the length of a + b under numpy broadcasting; -1 when the shapes do not match
AddLen(a, b) == IF a = b THEN a ELSE IF a = 1 THEN b ELSE IF b = 1 THEN a ELSE -1

\* fade_length = int(fade_duration * self.sample_rate), fade_duration = 0.1
fade_length == TruncDiv(SampleRate, 10)

\* apply_fade succeeds: `audio[:fade_length] *= fade_in` and
\* `audio[-fade_length:] *= fade_out` need the slice to have the length of
\* the ramp, or the ramp to have length 1
apply_fade_ok(n) ==
    LET head == Min(n, fade_length)
        tail == IF fade_length = 0 THEN n ELSE Min(n, fade_length)
    IN /\ (head = fade_length \/ fade_length = 1)
       /\ (tail = fade_length \/ fade_length = 1)

\* Lines 214-240 on the samples: a channel is the sequence of its samples,
\* in thousandths of full scale; a normalized sample is the exact quotient
\* <<sample, divisor>>.

\* np.max(np.abs(x)); an empty array has none
Peak(x) == IF Len(x) = 0 THEN 0
           ELSE CHOOSE m \in {Abs(x[i]) : i \in 1..Len(x)} :
                    \A i \in 1..Len(x) : Abs(x[i]) <= m

\* a + b for numpy arrays of matching shapes
AddArrays(a, b) ==
    [i \in 1..AddLen(Len(a), Len(b)) |->
        (IF Len(a) = 1 THEN a[1] ELSE a[i]) + (IF Len(b) = 1 THEN b[1] ELSE b[i])]

\* a fade-out ramp built without its endpoint
fade_out_open(i, num) == <<num - i + 1, num>>

\* np.linspace(0, 1, num)[i] and np.linspace(1, 0, num)[i] as <<p, q>> = p / q
fade_in(i, num) == IF num = 1 THEN <<0, 1>> ELSE <<i - 1, num - 1>>
fade_out(i, num) == IF num = 1 THEN <<1, 1>> ELSE <<num - i, num - 1>>

\* apply_fade on a buffer it accepts: `audio[:fade_length] *= fade_in`,
\* then `audio[-fade_length:] *= fade_out`
apply_fade(audio) ==
    LET n == Len(audio)
        faded_in == [i \in 1..n |->
                        IF i <= fade_length
                        THEN TruncDiv(audio[i] * fade_in(i, fade_length)[1],
                                      fade_in(i, fade_length)[2])
                        ELSE audio[i]]
    IN [i \in 1..n |->
           IF i > n - fade_length
           THEN TruncDiv(faded_in[i] * fade_out(i - (n - fade_length), fade_length)[1],
                         fade_out(i - (n - fade_length), fade_length)[2])
           ELSE faded_in[i]]

\* a peak taken from the left channel alone
max_amplitude_left(left_channel, right_channel) == Peak(left_channel)

\* max(np.max(np.abs(left_channel)), np.max(np.abs(right_channel)))
max_amplitude(left_channel, right_channel) ==
    Max(Peak(left_channel), Peak(right_channel))

\* a normalization that divides each channel by its own peak
NormalizedOwnPeak(channel, peak) ==
    [i \in 1..Len(channel) |->
        <<channel[i], IF Peak(channel) > 1000 THEN Peak(channel) ELSE 1000>>]

\* `if max_amplitude > 1: channel /= max_amplitude`
Normalized(channel, peak) ==
    [i \in 1..Len(channel) |-> <<channel[i], IF peak > 1000 THEN peak ELSE 1000>>]

\* (stereo_audio * 32767).astype(np.int16): the product truncated toward
\* zero; Wrap16 is the two's-complement value a product outside the 16-bit
\* range is stored as
Scaled16(sample) == TruncDiv(sample[1] * 32767, sample[2])
Wrap16(v) == ((v + 32768) % 65536) - 32768
audio_16bit(channel) == [i \in 1..Len(channel) |-> Wrap16(Scaled16(channel[i]))]

NoFinish == [err |-> "ValueError", left |-> <<>>, right |-> <<>>,
             faded_left |-> <<>>, faded_right |-> <<>>,
             pcm_left |-> <<>>, pcm_right |-> <<>>]

\* lines 214-240 of generate on the three synthesized buffers:
\* [err, faded_left, faded_right, left, right, pcm_left, pcm_right]
Finish(left, right, isochronic) ==
    IF AddLen(Len(left), Len(isochronic)) < 0 \/ AddLen(Len(right), Len(isochronic)) < 0
    THEN NoFinish
    ELSE IF ~apply_fade_ok(AddLen(Len(left), Len(isochronic)))
            \/ ~apply_fade_ok(AddLen(Len(right), Len(isochronic)))
    THEN NoFinish
    ELSE LET left_channel == apply_fade(AddArrays(left, isochronic))
             right_channel == apply_fade(AddArrays(right, isochronic))
             peak == max_amplitude(left_channel, right_channel)
         IN IF Len(left_channel) = 0 \/ Len(right_channel) = 0
               \/ Len(left_channel) # Len(right_channel)
            THEN NoFinish
            ELSE [err |-> "",
                  faded_left |-> left_channel,
                  faded_right |-> right_channel,
                  left |-> Normalized(left_channel, peak),
                  right |-> Normalized(right_channel, peak),
                  pcm_left |-> audio_16bit(Normalized(left_channel, peak)),
                  pcm_right |-> audio_16bit(Normalized(right_channel, peak))]

----------------------------------------------------------------------------
(* resonera/audio/generator.py: AudioGenerator.generate, line by line.     *)
(* One orchestrator (routes.py: audio_generator) serves every request;     *)
(* each request thread runs generate on it.  A step holds at most one      *)
(* access to self._last_frequency, so steps of different threads           *)
(* interleave exactly as the accesses of the threads can.                  *)

Threads == {1, 2}
Users == {1, 2}

NoCall == [user |-> 0, frequency |-> 0, duration |-> <<0, 1>>, volume |-> 0,
           transition_type |-> ""]

NoLocals == [branch |-> "",              \* which arm of the `if` at line 150 ran
             prior_check |-> 0,           \* self._last_frequency as read at line 150
             prior_duration |-> 0,        \* ... as read at line 153
             prior_curve |-> 0,           \* ... as read at line 160, 164 or 168
             transition_duration |-> <<0, 1>>,
             freq_curve |-> Curve(<<>>),
             audio |-> NoAudio,
             segments |-> <<>>,           \* history: the segments appended, in order
             n |-> 0,                     \* samples per channel after the channel sum
             err |-> "",
             returned |-> FALSE,          \* the encoded buffer reached the sink
             begin_has |-> FALSE,         \* history: has_last when the call began
             begin_last |-> 0,            \* history: last_frequency when the call began
             begin_session |-> [has |-> FALSE, f |-> 0]]  \* history: the caller's session_prior

GenInit ==
    /\ has_last = FALSE
    /\ last_frequency = 0
    /\ pc = [t \in Threads |-> "idle"]
    /\ call = [t \in Threads |-> NoCall]
    /\ loc = [t \in Threads |-> NoLocals]
    /\ session_prior = [u \in Users |-> [has |-> FALSE, f |-> 0]]

Fail(t, e, audio) ==
    /\ pc' = [pc EXCEPT ![t] = "failed"]
    /\ loc' = [loc EXCEPT ![t].err = e, ![t].audio = audio]

\* routes.py: audio_generator.generate(frequency=..., duration=..., volume=...)
\* and any direct call of generate.  serial: no other call is in flight.
Invoke(t, user, frequency, duration, volume, transition_type, serial) ==
    /\ pc[t] = "idle"
    /\ serial => \A s \in Threads : pc[s] = "idle"
    /\ pc' = [pc EXCEPT ![t] = "l150"]
    /\ call' = [call EXCEPT ![t] = [user |-> user, frequency |-> frequency,
                                    duration |-> duration, volume |-> volume,
                                    transition_type |-> transition_type]]
    /\ loc' = [loc EXCEPT ![t] = [NoLocals EXCEPT !.begin_has = has_last,
                                                  !.begin_last = last_frequency,
                                                  !.begin_session = session_prior[user]]]
    /\ UNCHANGED <<has_last, last_frequency, session_prior, fn_vars>>

\* a generate call made while the service's tables stay as they are
Generate(t, user, frequency, duration, volume, transition_type, serial) ==
    /\ Invoke(t, user, frequency, duration, volume, transition_type, serial)
    /\ UNCHANGED svc_vars

\* line 150: if hasattr(self, '_last_frequency') and self._last_frequency != frequency
Line150(t) ==
    /\ pc[t] = "l150"
    /\ IF NeedsTransition(has_last, last_frequency, call[t].frequency)
       THEN /\ pc' = [pc EXCEPT ![t] = "l152"]
            /\ loc' = [loc EXCEPT ![t].branch = "transition",
                                  ![t].prior_check = last_frequency]
       ELSE /\ pc' = [pc EXCEPT ![t] = "l204"]
            /\ loc' = [loc EXCEPT ![t].branch = "steady",
                                  ![t].prior_check = last_frequency]
    /\ UNCHANGED <<has_last, last_frequency, call, session_prior, fn_vars, svc_vars>>

\* lines 152-155: transition_duration
Line152(t) ==
    /\ pc[t] = "l152"
    /\ pc' = [pc EXCEPT ![t] = "l158"]
    /\ loc' = [loc EXCEPT ![t].prior_duration = last_frequency,
                          ![t].transition_duration =
                              TransitionDuration(last_frequency, call[t].frequency,
                                                 call[t].duration)]
    /\ UNCHANGED <<has_last, last_frequency, call, session_prior, fn_vars, svc_vars>>

\* lines 158-169: freq_curve
Line158(t) ==
    \E curve \in {FrequencyCurve(call[t].transition_type, last_frequency,
                                 call[t].frequency, loc[t].transition_duration)} :
       /\ pc[t] = "l158"
       /\ IF curve.err # ""
          THEN /\ pc' = [pc EXCEPT ![t] = "failed"]
               /\ loc' = [loc EXCEPT ![t].prior_curve = last_frequency,
                                     ![t].err = curve.err]
          ELSE /\ pc' = [pc EXCEPT ![t] = "l177"]
               /\ loc' = [loc EXCEPT ![t].prior_curve = last_frequency,
                                     ![t].freq_curve = curve]
       /\ UNCHANGED <<has_last, last_frequency, call, session_prior, fn_vars, svc_vars>>

\* lines 171-187: the transition audio, one step per sample of the curve
Line177(t) ==
    \E audio \in {TransitionLoop(loc[t].freq_curve, call[t].volume)} :
       /\ pc[t] = "l177"
       /\ IF audio.err # ""
          THEN Fail(t, audio.err, audio)
          ELSE /\ pc' = [pc EXCEPT ![t] = "l190"]
               /\ loc' = [loc EXCEPT ![t].audio = audio,
                                     ![t].segments =
                                         <<[kind |-> "transition",
                                            frequency |-> call[t].frequency,
                                            duration |-> loc[t].transition_duration]>>]
       /\ UNCHANGED <<has_last, last_frequency, call, session_prior, fn_vars, svc_vars>>

\* lines 189-201: the remaining duration at the target frequency
Line190(t) ==
    LET remaining_duration == RatSub(call[t].duration, loc[t].transition_duration)
    IN /\ pc[t] = "l190"
       /\ IF ~RatPos(remaining_duration)
          THEN /\ pc' = [pc EXCEPT ![t] = "l212"]
               /\ UNCHANGED loc
          ELSE \E audio \in {SteadySegment(call[t].frequency, remaining_duration,
                                           call[t].volume, loc[t].audio)} :
               IF audio.err # ""
               THEN Fail(t, audio.err, audio)
               ELSE /\ pc' = [pc EXCEPT ![t] = "l212"]
                    /\ loc' = [loc EXCEPT ![t].audio = audio,
                                          ![t].segments =
                                              Append(@, [kind |-> "steady",
                                                         frequency |-> call[t].frequency,
                                                         duration |-> remaining_duration])]
       /\ UNCHANGED <<has_last, last_frequency, call, session_prior, fn_vars, svc_vars>>

\* lines 203-209: no transition needed
Line204(t) ==
    \E audio \in {SteadySegment(call[t].frequency, call[t].duration,
                                call[t].volume, NoAudio)} :
       /\ pc[t] = "l204"
       /\ IF audio.err # ""
          THEN Fail(t, audio.err, audio)
          ELSE /\ pc' = [pc EXCEPT ![t] = "l212"]
               /\ loc' = [loc EXCEPT ![t].audio = audio,
                                     ![t].segments =
                                         <<[kind |-> "steady",
                                            frequency |-> call[t].frequency,
                                            duration |-> call[t].duration]>>]
       /\ UNCHANGED <<has_last, last_frequency, call, session_prior, fn_vars, svc_vars>>

\* lines 211-212: self._last_frequency = frequency
Line212(t) ==
    /\ pc[t] = "l212"
    /\ pc' = [pc EXCEPT ![t] = "l215"]
    /\ has_last' = TRUE
    /\ last_frequency' = RecordedFrequency(last_frequency, call[t].frequency)
    /\ session_prior' = [session_prior EXCEPT ![call[t].user] =
                            [has |-> TRUE,
                             f |-> RecordedFrequency(last_frequency, call[t].frequency)]]
    /\ UNCHANGED <<call, loc, fn_vars, svc_vars>>

\* channel sums and fades that pass an empty buffer on as it is
Line215TolerateEmpty(t) ==
    LET n_l == AddLen(loc[t].audio.n_left, loc[t].audio.n_iso)
        n_r == AddLen(loc[t].audio.n_right, loc[t].audio.n_iso)
    IN /\ pc[t] = "l215"
       /\ IF n_l = 0 /\ n_r = 0
          THEN /\ pc' = [pc EXCEPT ![t] = "l233"]
               /\ loc' = [loc EXCEPT ![t].n = 0]
          ELSE IF n_l < 0 \/ n_r < 0 \/ ~apply_fade_ok(n_l) \/ ~apply_fade_ok(n_r)
          THEN /\ pc' = [pc EXCEPT ![t] = "failed"]
               /\ loc' = [loc EXCEPT ![t].err = "ValueError"]
          ELSE /\ pc' = [pc EXCEPT ![t] = "l223"]
               /\ loc' = [loc EXCEPT ![t].n = n_l]
       /\ UNCHANGED <<has_last, last_frequency, call, session_prior, fn_vars, svc_vars>>

\* lines 214-220: the channel sums and the fades
Line215(t) ==
    LET n_l == AddLen(loc[t].audio.n_left, loc[t].audio.n_iso)
        n_r == AddLen(loc[t].audio.n_right, loc[t].audio.n_iso)
    IN /\ pc[t] = "l215"
       /\ IF n_l < 0 \/ n_r < 0 \/ ~apply_fade_ok(n_l) \/ ~apply_fade_ok(n_r)
          THEN /\ pc' = [pc EXCEPT ![t] = "failed"]
               /\ loc' = [loc EXCEPT ![t].err = "ValueError"]
          ELSE /\ pc' = [pc EXCEPT ![t] = "l223"]
               /\ loc' = [loc EXCEPT ![t].n = n_l]
       /\ UNCHANGED <<has_last, last_frequency, call, session_prior, fn_vars, svc_vars>>

\* lines 222-230: np.max of each channel (an empty channel has no maximum),
\* the joint normalization and np.vstack
Line223(t) ==
    /\ pc[t] = "l223"
    /\ IF loc[t].n = 0 \/ loc[t].audio.n_left # loc[t].audio.n_right
       THEN /\ pc' = [pc EXCEPT ![t] = "failed"]
            /\ loc' = [loc EXCEPT ![t].err = "ValueError"]
       ELSE /\ pc' = [pc EXCEPT ![t] = "l233"]
            /\ UNCHANGED loc
    /\ UNCHANGED <<has_last, last_frequency, call, session_prior, fn_vars, svc_vars>>

\* lines 232-245: the temporary file, the 16-bit encoding and wavfile.write.
\* The file system is outside the program: the write succeeds or raises.
Line233(t) ==
    /\ pc[t] = "l233"
    /\ \/ /\ pc' = [pc EXCEPT ![t] = "done"]
          /\ loc' = [loc EXCEPT ![t].returned = TRUE]
       \/ /\ pc' = [pc EXCEPT ![t] = "failed"]
          /\ loc' = [loc EXCEPT ![t].err = "OSError"]
    /\ UNCHANGED <<has_last, last_frequency, call, session_prior, fn_vars, svc_vars>>

\* generate has returned or raised: the thread takes its next request
Return(t) ==
    /\ pc[t] \in {"done", "failed"}
    /\ pc' = [pc EXCEPT ![t] = "idle"]
    /\ call' = [call EXCEPT ![t] = NoCall]
    /\ loc' = [loc EXCEPT ![t] = NoLocals]
    /\ UNCHANGED <<has_last, last_frequency, session_prior, fn_vars, svc_vars>>

\* one statement of a generate call under way
Statement(t) ==
    \/ Line150(t) \/ Line152(t) \/ Line158(t) \/ Line177(t) \/ Line190(t)
    \/ Line204(t) \/ Line212(t) \/ Line215(t) \/ Line223(t) \/ Line233(t)

Step(t) == Statement(t) \/ Return(t)

\* generate's default volume, 0.7
default_volume == 700000000

----------------------------------------------------------------------------
(* resonera/safety/validator.py: SafetyValidator, over the application's   *)
(* configuration (resonera/core/config.py)                                 *)

\* Config.MAX_FREQUENCY, Config.MIN_FREQUENCY and Config.MAX_VOLUME
MAX_FREQUENCY_default == 100000
MIN_FREQUENCY == 500
MAX_VOLUME == 800000000

validate_frequency(frequency) ==
    MIN_FREQUENCY <= frequency /\ frequency <= MAX_FREQUENCY

validate_volume(volume) == 0 <= volume /\ volume <= MAX_VOLUME

\* validate_session_parameters: is_safe
validate_session_parameters(frequency, volume, duration) ==
    IF ~validate_frequency(frequency) THEN FALSE
    ELSE IF ~validate_volume(volume) THEN FALSE
    ELSE IF ~RatPos(duration) \/ RatLt(<<3600, 1>>, duration) THEN FALSE
    ELSE TRUE

\* a validate_user_safety that takes the user's limit as it is
validate_user_safety_assign(user) ==
    IF user.has_medical_condition /\ ~user.emergency_contact
    THEN [is_safe |-> FALSE, MAX_FREQUENCY |-> MAX_FREQUENCY]
    ELSE [is_safe |-> TRUE, MAX_FREQUENCY |-> user.max_frequency]

\* validate_user_safety: [is_safe, MAX_FREQUENCY], the second being the
\* configuration's limit when the call returns
validate_user_safety(user) ==
    IF user.has_medical_condition /\ ~user.emergency_contact
    THEN [is_safe |-> FALSE, MAX_FREQUENCY |-> MAX_FREQUENCY]
    ELSE [is_safe |-> TRUE,
          MAX_FREQUENCY |-> IF user.max_frequency < MAX_FREQUENCY
                            THEN user.max_frequency
                            ELSE MAX_FREQUENCY]

----------------------------------------------------------------------------
(* resonera/audio/routes.py over resonera/database/__init__.py.  A request *)
(* is [route, user_id, session_id, data, status]: status 0 while the       *)
(* handler runs, then the HTTP status of its response (for                 *)
(* validate_user_safety, 200 for is_safe and 400 otherwise).  A column     *)
(* that is NULL holds 0.                                                   *)

NoRequest == [route |-> "", user_id |-> 0, session_id |-> 0, data |-> <<>>, status |-> 0]

\* the handler of thread t has not answered yet
InFlight(t) == request[t].route # "" /\ request[t].status = 0

SvcInit ==
    /\ MAX_FREQUENCY = MAX_FREQUENCY_default
    /\ sessions = <<>>
    /\ safety_logs = <<>>
    /\ request = [t \in Threads |-> NoRequest]

Responded(t, route, user_id, session_id, data, status) ==
    [request EXCEPT ![t] = [route |-> route, user_id |-> user_id,
                            session_id |-> session_id, data |-> data,
                            status |-> status]]

\* a direct call of validate_user_safety
ValidateUserSafety(t, user) ==
    /\ ~InFlight(t)
    /\ MAX_FREQUENCY' = validate_user_safety(user).MAX_FREQUENCY
    /\ request' = Responded(t, "validate_user_safety", 0, 0, user,
                            IF validate_user_safety(user).is_safe THEN 200 ELSE 400)
    /\ UNCHANGED <<gen_vars, fn_vars, sessions, safety_logs>>

\* the Session table holds no more than MaxSessions rows
MaxSessions == 2

\* data.get('volume', 0.7)
VolumeOf(data) == IF "volume" \in data.keys THEN data.volume ELSE default_volume

\* generate_audio, lines 18-45: up to the call of audio_generator.generate
GenerateAudio(t, user_id, data) ==
    /\ ~InFlight(t)
    /\ IF ~({"target_frequency", "duration"} \subseteq data.keys)
       THEN /\ request' = Responded(t, "generate_audio", user_id, 0, data, 400)
            /\ UNCHANGED <<gen_vars, fn_vars, MAX_FREQUENCY, sessions, safety_logs>>
       ELSE IF ~validate_frequency(data.target_frequency)
       THEN /\ request' = Responded(t, "generate_audio", user_id, 0, data, 400)
            /\ UNCHANGED <<gen_vars, fn_vars, MAX_FREQUENCY, sessions, safety_logs>>
       ELSE /\ Len(sessions) < MaxSessions
            /\ sessions' = Append(sessions, [user_id |-> user_id,
                                             target_frequency |-> data.target_frequency,
                                             volume_level |-> VolumeOf(data),
                                             end_time |-> 0])
            /\ request' = Responded(t, "generate_audio", user_id, Len(sessions) + 1,
                                    data, 0)
            /\ Invoke(t, user_id, data.target_frequency, data.duration, VolumeOf(data),
                      "sigmoid", TRUE)
            /\ UNCHANGED <<MAX_FREQUENCY, safety_logs>>

\* generate_audio, lines 47-76: generate has returned or raised
GenerateAudioEnd(t) ==
    /\ InFlight(t)
    /\ request[t].route = "generate_audio"
    /\ pc[t] \in {"done", "failed"}
    /\ safety_logs' = Append(safety_logs,
                             [session_id |-> request[t].session_id,
                              event_type |-> IF pc[t] = "done" THEN "AUDIO_GENERATED"
                                             ELSE "GENERATION_ERROR"])
    /\ request' = [request EXCEPT ![t].status = IF pc[t] = "done" THEN 200 ELSE 500]
    /\ pc' = [pc EXCEPT ![t] = "idle"]
    /\ call' = [call EXCEPT ![t] = NoCall]
    /\ loc' = [loc EXCEPT ![t] = NoLocals]
    /\ UNCHANGED <<has_last, last_frequency, session_prior, fn_vars, MAX_FREQUENCY, sessions>>

\* Session.query.filter_by(id=session_id, user_id=user_id).first(): the id
\* of the row, 0 for None
FirstSession(session_id, user_id) ==
    IF session_id \in 1..Len(sessions) /\ sessions[session_id].user_id = user_id
    THEN session_id
    ELSE 0

\* stop_session, lines 122-129: the query and the two early returns
StopSessionQuery(t, user_id, session_id) ==
    /\ ~InFlight(t)
    /\ pc[t] = "idle"
    /\ request' = Responded(t, "stop_session", user_id, session_id, <<>>,
                            IF FirstSession(session_id, user_id) = 0 THEN 404
                            ELSE IF sessions[session_id].end_time # 0 THEN 400
                            ELSE 0)
    /\ UNCHANGED <<gen_vars, fn_vars, MAX_FREQUENCY, sessions, safety_logs>>

\* stop_session, lines 131-144: end_time, the log record and the commit
StopSessionCommit(t, now) ==
    /\ InFlight(t)
    /\ request[t].route = "stop_session"
    /\ sessions' = [sessions EXCEPT ![request[t].session_id].end_time = now]
    /\ safety_logs' = Append(safety_logs, [session_id |-> request[t].session_id,
                                           event_type |-> "SESSION_STOPPED"])
    /\ request' = [request EXCEPT ![t].status = 200]
    /\ UNCHANGED <<gen_vars, fn_vars, MAX_FREQUENCY>>

----------------------------------------------------------------------------
(* resonera/audio/mixer.py: Equalizer.  A signal is held as its spectrum:  *)
(* for every bin of np.fft.rfftfreq, in Hz, the gain in dB applied to the  *)
(* bin so far (multiplying by 10^(g/20) adds g) and the bands that have    *)
(* scaled it.  The peak normalization that ends process divides every bin  *)
(* by the same number, the peak of the signal this spectrum describes.     *)

\* self.bands
bands == [low |-> <<20, 250>>, mid |-> <<250, 4000>>, high |-> <<4000, 20000>>]

\* mask = (freqs >= low_freq) & (freqs <= high_freq)
BandMask(band, freq) == freq >= bands[band][1] /\ freq <= bands[band][2]

\* np.copy(audio): no gain applied yet
Unscaled(bins) == [err |-> "",
                   db |-> [b \in bins |-> 0],
                   scaled |-> [b \in bins |-> {}]]

\* a band filter that sets the gain of the masked bins instead of
\* multiplying it onto them
apply_band_filter_overwrite(audio, band, gain_db) ==
    IF band \notin DOMAIN bands
    THEN [err |-> "ValueError", db |-> audio.db, scaled |-> audio.scaled]
    ELSE [err |-> "",
          db |-> [b \in DOMAIN audio.db |->
                     IF BandMask(band, b) THEN gain_db ELSE audio.db[b]],
          scaled |-> [b \in DOMAIN audio.db |->
                         IF BandMask(band, b) THEN audio.scaled[b] \cup {band}
                         ELSE audio.scaled[b]]]

\* apply_band_filter: fft[mask] *= gain
apply_band_filter(audio, band, gain_db) ==
    IF band \notin DOMAIN bands
    THEN [err |-> "ValueError", db |-> audio.db, scaled |-> audio.scaled]
    ELSE [err |-> "",
          db |-> [b \in DOMAIN audio.db |->
                     IF BandMask(band, b) THEN audio.db[b] + gain_db ELSE audio.db[b]],
          scaled |-> [b \in DOMAIN audio.db |->
                         IF BandMask(band, b) THEN audio.scaled[b] \cup {band}
                         ELSE audio.scaled[b]]]

\* `for band, gain in gains.items()` from entry i on; gains is the mapping
\* as the sequence of its <<band, gain>> entries, in iteration order
RECURSIVE ProcessFrom(_, _, _)
ProcessFrom(result, gains, i) ==
    IF i > Len(gains) THEN result
    ELSE The({ IF filtered.err # ""
               THEN [err |-> filtered.err,
                     db |-> [b \in DOMAIN result.db |-> 0],
                     scaled |-> [b \in DOMAIN result.db |-> {}]]
               ELSE ProcessFrom(filtered, gains, i + 1) :
               filtered \in {apply_band_filter(result, gains[i][1], gains[i][2])} })

\* Equalizer.process on the signal with the given bins: [err, db, scaled]
process(bins, gains) == ProcessFrom(Unscaled(bins), gains, 1)

----------------------------------------------------------------------------
(* resonera/audio/mixer.py: BackgroundSoundMixer.  A buffer is the         *)
(* sequence of its samples, in thousandths of full scale.  The values of   *)
(* the background (the noise drawn by np.random.normal, the drone's wave,  *)
(* after the equalizer if there is one) are an argument, `wave`; only the  *)
(* length of the background and whether it is NaN are computed.            *)

\* np.fft.rfftfreq(n, 1 / sample_rate), in whole Hz
RfftFreq(n) == {FloorDiv(k * SampleRate, n) : k \in 0..(n \div 2)}

\* generate_white_noise: [err, n, nan].  np.fft.rfft has no transform of an
\* empty array, and np.fft.irfft(fft), called without the length, returns
\* 2 * (len(fft) - 1) = 2 * (samples // 2) samples, none of them being an
\* error as well
generate_white_noise(duration, volume) ==
    LET samples == NumSamples(duration)
    IN IF samples <= 0 \/ 2 * (samples \div 2) = 0
       THEN [err |-> "ValueError", n |-> 0, nan |-> FALSE]
       ELSE [err |-> "", n |-> 2 * (samples \div 2), nan |-> FALSE]

\* generate_ambient_drone: [err, n, nan].  The wave is 0 at t = 0, so a
\* one-sample drone is divided by a peak of 0: NaN
generate_ambient_drone(duration, volume) ==
    LET samples == NumSamples(duration)
    IN IF samples <= 0
       THEN [err |-> "ValueError", n |-> 0, nan |-> FALSE]
       ELSE [err |-> "", n |-> samples, nan |-> samples = 1]

\* `if max_amplitude > 1: mixed_channels[i] /= max_amplitude`
NormalizeChannel(x) ==
    IF Peak(x) > 1000 THEN [i \in 1..Len(x) |-> TruncDiv(x[i] * 1000, Peak(x))]
    ELSE x

NoMix == [err |-> "ValueError", stereo |-> FALSE, channels |-> <<>>, nan |-> FALSE]

\* mix_background: [err, stereo, channels, nan].  main_audio is
\* [stereo, channels]: a tuple of two arrays or one array
mix_background(main_audio, background_type, volume, eq_gains, wave) ==
    LET main_channels == main_audio.channels
        duration == <<Len(main_channels[1]), SampleRate>>
        background == IF background_type = "white_noise"
                      THEN generate_white_noise(duration, volume)
                      ELSE generate_ambient_drone(duration, volume)
        equalized == IF eq_gains # <<>>
                     THEN process(RfftFreq(background.n), eq_gains).err
                     ELSE ""
    IN IF background.err # "" THEN NoMix
       ELSE IF equalized # "" THEN NoMix
       ELSE IF \E c \in 1..Len(main_channels) :
                   AddLen(Len(main_channels[c]), background.n) < 0
       THEN NoMix
       ELSE [err |-> "",
             stereo |-> main_audio.stereo,
             channels |-> [c \in 1..Len(main_channels) |->
                              NormalizeChannel(AddArrays(main_channels[c], wave))],
             nan |-> background.nan]

----------------------------------------------------------------------------
(* The pure functions, applied to arguments drawn from bounded sets *)

FnInit ==
    /\ fn = "none"
    /\ fn_args = <<>>
    /\ fn_result = [err |-> ""]

OvertoneFundamentals ==
    {-100000, 0, 1, 100000, 250000, 400000, 1000000, 1000001, 1200000}
OvertoneDurations == {<<1, 1>>, <<1, 10>>, <<0, 1>>, <<-1, 1>>}
OvertoneAmplitudes == {0, 100000000, 200000000, 500000000, 1000000000}

ApplyGenerateOvertones ==
    \E fundamental \in OvertoneFundamentals, duration \in OvertoneDurations,
       base_amplitude \in OvertoneAmplitudes :
        /\ fn = "none"
        /\ fn' = "generate_overtones"
        /\ fn_args' = <<fundamental, duration, base_amplitude>>
        /\ fn_result' = generate_overtones(fundamental, duration, base_amplitude)
        /\ UNCHANGED <<gen_vars, svc_vars>>

CarrierTargets ==
    {1000, 1995, 2000, 2005, 4000, 5991, 6000, 6009, 7000, 8000, 9995, 10000, 10005,
     15000}
CarrierRanges ==
    {<<200000, 500000>>, <<300000, 600000>>, <<100000, 400000>>, <<200000, 1000000>>,
     <<200000, 300000>>, <<5000, 20000>>, <<500000, 300000>>}

ApplyOptimizeCarrier ==
    \E target_freq \in CarrierTargets, range \in CarrierRanges :
        /\ fn = "none"
        /\ fn' = "optimize_carrier_frequency"
        /\ fn_args' = <<target_freq, range[1], range[2]>>
        /\ fn_result' = optimize_carrier_frequency(target_freq, range[1], range[2])
        /\ UNCHANGED <<gen_vars, svc_vars>>

RECURSIVE Gcd(_, _)
Gcd(a, b) == IF b = 0 THEN a ELSE Gcd(b, a % b)

\* the ratio num / den in lowest terms
Lowest(num, den) == <<num \div Gcd(num, den), den \div Gcd(num, den)>>

\* the product of two ratios given in thousandths, halved while > 2
HalvedProduct(r1, r2) ==
    LET product == Lowest(r1 * r2, 1000000)
        halved == HalvedDen(product[1], product[2])
    IN Lowest(product[1], halved)

\* the ratios _decompose_ratio is applied to: the products of two harmonic
\* ratios, and ratios of other kinds
DecomposeRatios ==
    {HalvedProduct(harmonic_ratios[i], harmonic_ratios[j]) :
         i, j \in 1..Len(harmonic_ratios)}
    \cup {<<1, 1>>, <<3, 1>>, <<5, 1>>, <<7, 1>>, <<20, 1>>, <<237, 100>>, <<21, 10>>,
          <<101, 100>>, <<1, 2>>, <<0, 1>>}

ApplyDecomposeRatio ==
    \E ratio \in DecomposeRatios :
        /\ fn = "none"
        /\ fn' = "decompose_ratio"
        /\ fn_args' = ratio
        /\ fn_result' = [err |-> "", remainder |-> decompose_ratio(ratio[1], ratio[2])]
        /\ UNCHANGED <<gen_vars, svc_vars>>

NearestBases == {0, 100000, 200000, 440000}
NearestTargets == {0, 100000, 122500, 125000, 150000, 175000, 260000, 1000000}

ApplyFindNearestHarmonic ==
    \E base_freq \in NearestBases, target_freq \in NearestTargets :
        /\ fn = "none"
        /\ fn' = "find_nearest_harmonic"
        /\ fn_args' = <<base_freq, target_freq>>
        /\ fn_result' = find_nearest_harmonic(base_freq, target_freq)
        /\ UNCHANGED <<gen_vars, svc_vars>>

CombinationFrequencies == {0, 100000, 105000, 150000, 180000, 200000, 210000, 237000}
CombinationMaxRatios == {2000, 1800, 1020}

ApplyValidateFrequencyCombination ==
    \E freq1 \in CombinationFrequencies, freq2 \in CombinationFrequencies,
       max_ratio \in CombinationMaxRatios :
        /\ fn = "none"
        /\ fn' = "validate_frequency_combination"
        /\ fn_args' = <<freq1, freq2, max_ratio>>
        /\ fn_result' = validate_frequency_combination(freq1, freq2, max_ratio)
        /\ UNCHANGED <<gen_vars, svc_vars>>

\* the sequences over S of length at most n
SeqsUpTo(S, n) == UNION {[1..k -> S] : k \in 0..n}

CurveStarts == {2000, 6000, 10000}
CurveEnds == {2000, 6000, 10000}
CurveDurations == {<<1, 1>>, <<3, 20>>, <<1, 10>>, <<1, 20>>, <<0, 1>>, <<-1, 1>>}

ApplyTransition ==
    \E transition_type \in TransitionTypes, start_freq \in CurveStarts,
       end_freq \in CurveEnds, duration \in CurveDurations :
        /\ fn = "none"
        /\ fn' = "transition"
        /\ fn_args' = <<transition_type, start_freq, end_freq, duration>>
        /\ fn_result' = FrequencyCurve(transition_type, start_freq, end_freq, duration)
        /\ UNCHANGED <<gen_vars, svc_vars>>

MaxPoints == 3
PointFrequencies == {6000, 10000}
PointTimestamps == {0, 5, 12}

ApplyGetTransitionPoints ==
    \E frequencies \in SeqsUpTo(PointFrequencies, MaxPoints),
       timestamps \in SeqsUpTo(PointTimestamps, MaxPoints) :
        /\ fn = "none"
        /\ fn' = "get_transition_points"
        /\ fn_args' = <<frequencies, timestamps>>
        /\ fn_result' = get_transition_points(frequencies, timestamps)
        /\ UNCHANGED <<gen_vars, svc_vars>>

\* the bins of two signals at 44100 samples per second: some of those of a
\* one-second signal (every whole Hz up to 22050), and those of a signal
\* of four samples
AudioBins == {{0, 20, 100, 250, 1000, 4000, 10000, 20000, 22050}, {0, 11025, 22050}}
GainBands == {"low", "mid", "high", "sub"}
GainValues == {-3, 6}

\* the mappings of some of the bands to gains, in every iteration order
GainMappings ==
    {gains \in SeqsUpTo(GainBands \X GainValues, Cardinality(DOMAIN bands)) :
        \A i, j \in 1..Len(gains) : i # j => gains[i][1] # gains[j][1]}

ApplyProcess ==
    \E bins \in AudioBins, gains \in GainMappings :
        /\ fn = "none"
        /\ fn' = "process"
        /\ fn_args' = <<bins, gains>>
        /\ fn_result' = process(bins, gains)
        /\ UNCHANGED <<gen_vars, svc_vars>>

MaxFrames == 4
BackgroundTypes == {"white_noise", "ambient"}
EqGains == {<<>>, <<<<"low", -3>>, <<"high", 6>>>>, <<<<"sub", 6>>>>}

\* mono buffers and stereo pairs of every length up to MaxFrames
MainAudio ==
    UNION {{[stereo |-> FALSE, channels |-> <<ch>>] : ch \in [1..L -> {-1000, 400}]}
           \cup {[stereo |-> TRUE, channels |-> <<ch, [i \in 1..L |-> -ch[i]]>>] :
                    ch \in [1..L -> {-1000, 400}]} : L \in 1..MaxFrames}

\* the backgrounds of n samples at the volume: a generator leaves the peak
\* at the volume, the equalizer anywhere up to full scale
Waves(n, volume, eq_gains) ==
    IF eq_gains = <<>>
    THEN [1..n -> {-volume, volume}]
    ELSE [1..n -> {-1000, volume}]

\* the length of the background mix_background makes for the main buffer
BackgroundLen(main_audio, background_type, volume) ==
    LET duration == <<Len(main_audio.channels[1]), SampleRate>>
    IN IF background_type = "white_noise"
       THEN generate_white_noise(duration, volume).n
       ELSE generate_ambient_drone(duration, volume).n

ApplyMixBackground ==
    \E main_audio \in MainAudio, background_type \in BackgroundTypes,
       volume \in {300}, eq_gains \in EqGains :
        \E wave \in Waves(BackgroundLen(main_audio, background_type, volume),
                          volume, eq_gains) :
            /\ fn = "none"
            /\ fn' = "mix_background"
            /\ fn_args' = <<main_audio, background_type, volume, eq_gains, wave>>
            /\ fn_result' = mix_background(main_audio, background_type, volume,
                                           eq_gains, wave)
            /\ UNCHANGED <<gen_vars, svc_vars>>

\* the three synthesized buffers of a call: every length up to MaxFrames
SynthesizedBuffers ==
    UNION {[1..n -> {-900, 700}] \X [1..n -> {-900, 500}]
           \X {[i \in 1..n |-> v] : v \in {0, 600}} : n \in 1..MaxFrames}

ApplyFinish ==
    \E buffers \in SynthesizedBuffers :
        /\ fn = "none"
        /\ fn' = "finish"
        /\ fn_args' = buffers
        /\ fn_result' = Finish(buffers[1], buffers[2], buffers[3])
        /\ UNCHANGED <<gen_vars, svc_vars>>

\* the call has returned or raised
FnReturn ==
    /\ fn # "none"
    /\ fn' = "none"
    /\ fn_args' = <<>>
    /\ fn_result' = [err |-> ""]
    /\ UNCHANGED <<gen_vars, svc_vars>>

Init == GenInit /\ FnInit /\ SvcInit

FnNext ==
    \/ ApplyGenerateOvertones
    \/ ApplyOptimizeCarrier
    \/ ApplyDecomposeRatio
    \/ ApplyFindNearestHarmonic
    \/ ApplyValidateFrequencyCombination
    \/ ApplyTransition
    \/ ApplyGetTransitionPoints
    \/ ApplyProcess
    \/ ApplyMixBackground
    \/ ApplyFinish
    \/ FnReturn

SpecFn == Init /\ [][FnNext]_vars

----------------------------------------------------------------------------
(* Spec: generate calls made one after another on the orchestrator *)

SerialFrequencies ==
    {-90005, -50000, 0, 2000, 6000, 7000, 10000, 500000, 500001}
SerialDurations ==
    {<<24, 1>>, <<1, 1>>, <<3, 10>>, <<1, 20>>, <<1, 40>>, <<0, 1>>, <<-1, 1>>}

SerialGenerate ==
    \E frequency \in SerialFrequencies, duration \in SerialDurations,
       transition_type \in TransitionTypes :
        Generate(1, 1, frequency, duration, default_volume, transition_type, TRUE)

Next == SerialGenerate \/ Step(1)

Spec == Init /\ [][Next]_vars

----------------------------------------------------------------------------
(* SpecSessions: the requests of several users, served one after another   *)
(* by routes.py's generate_audio, which calls generate with the default    *)
(* transition type                                                         *)

SessionFrequencies == {6000, 10000}
SessionDurations == {<<1, 1>>, <<2, 1>>}

SessionGenerate ==
    \E user \in Users, frequency \in SessionFrequencies, duration \in SessionDurations :
        Generate(1, user, frequency, duration, default_volume, "sigmoid", TRUE)

SessionsNext == SessionGenerate \/ Step(1)

SpecSessions == Init /\ [][SessionsNext]_vars

----------------------------------------------------------------------------
(* SpecOverlap: requests served by concurrent threads (app.run serves each *)
(* request in a thread of its own), so generate calls overlap in time      *)

OverlapFrequencies == {6000, 10000}
OverlapDurations == {<<1, 1>>}

OverlapGenerate ==
    \E t \in Threads, frequency \in OverlapFrequencies, duration \in OverlapDurations :
        Generate(t, 1, frequency, duration, default_volume, "sigmoid", FALSE)

OverlapNext == OverlapGenerate \/ \E t \in Threads : Step(t)

SpecOverlap == Init /\ [][OverlapNext]_vars

----------------------------------------------------------------------------
(* Properties of generate, checked under Spec                              *)

----------------------------------------------------------------------------
(* SpecService: requests to /generate and direct calls of                  *)
(* validate_user_safety, handled one after another                         *)

\* User rows: with and without an emergency contact, limits below and
\* above the configured one
UserProfiles ==
    {[has_medical_condition |-> TRUE, emergency_contact |-> FALSE, max_frequency |-> 40000],
     [has_medical_condition |-> TRUE, emergency_contact |-> TRUE, max_frequency |-> 40000],
     [has_medical_condition |-> FALSE, emergency_contact |-> FALSE, max_frequency |-> 120000],
     [has_medical_condition |-> FALSE, emergency_contact |-> FALSE, max_frequency |-> 60000]}

\* request bodies: inside every limit, above the frequency limit, above the
\* volume limit, with a duration of 0, and without a duration
RequestBodies ==
    {[keys |-> {"target_frequency", "duration"},
      target_frequency |-> 50000, duration |-> <<1, 1>>, volume |-> 0],
     [keys |-> {"target_frequency", "duration"},
      target_frequency |-> 150000, duration |-> <<1, 1>>, volume |-> 0],
     [keys |-> {"target_frequency", "duration", "volume"},
      target_frequency |-> 10000, duration |-> <<1, 1>>, volume |-> 900000000],
     [keys |-> {"target_frequency", "duration"},
      target_frequency |-> 10000, duration |-> <<0, 1>>, volume |-> 0],
     [keys |-> {"target_frequency"},
      target_frequency |-> 10000, duration |-> <<0, 1>>, volume |-> 0]}

ServiceValidate == \E user \in UserProfiles : ValidateUserSafety(1, user)

ServiceGenerate == \E data \in RequestBodies : GenerateAudio(1, 1, data)

ServiceNext ==
    \/ ServiceValidate
    \/ ServiceGenerate
    \/ Statement(1)
    \/ GenerateAudioEnd(1)

SpecService == Init /\ [][ServiceNext]_vars

----------------------------------------------------------------------------
(* SpecStop: requests to /generate and to /sessions/<id>/stop; the stop    *)
(* requests are served by concurrent threads                               *)

StopBodies ==
    {[keys |-> {"target_frequency", "duration"},
      target_frequency |-> f, duration |-> <<1, 1>>, volume |-> 0] : f \in {6000, 10000}}

\* datetime.utcnow() as the handler reads it
Times == {1, 2}

StopGenerate ==
    \E user_id \in Users, data \in StopBodies :
        /\ \A t \in Threads : ~InFlight(t)
        /\ GenerateAudio(1, user_id, data)

StopQuery ==
    \E t \in Threads, user_id \in Users, session_id \in 1..(MaxSessions + 1) :
        /\ pc[1] = "idle"
        /\ StopSessionQuery(t, user_id, session_id)

StopCommit == \E t \in Threads, now \in Times : StopSessionCommit(t, now)

StopNext ==
    \/ StopGenerate
    \/ Statement(1)
    \/ GenerateAudioEnd(1)
    \/ StopQuery
    \/ StopCommit

SpecStop == Init /\ [][StopNext]_vars

----------------------------------------------------------------------------
\* the steps of generate after the synthesis of every segment
Synthesized == {"l212", "l215", "l223", "l233", "done"}

\* C3: a call synthesizes a transition segment exactly when an earlier call
\* has recorded a prior frequency and that frequency differs from the
\* call's; otherwise (first call, or the same frequency again) it
\* synthesizes one steady-state segment at the frequency for the full
\* duration and nothing else.
C3_TransitionIffPriorDiffers ==
    \A t \in Threads :
        loc[t].branch # "" =>
            /\ (loc[t].branch = "transition")
                   <=> (loc[t].begin_has /\ loc[t].begin_last # call[t].frequency)
            /\ loc[t].branch = "transition" /\ loc[t].segments # <<>>
                   => loc[t].segments[1].kind = "transition"
            /\ loc[t].branch = "steady"
                   => /\ \A i \in 1..Len(loc[t].segments) :
                             loc[t].segments[i].kind = "steady"
                      /\ pc[t] \in Synthesized
                             => loc[t].segments = <<[kind |-> "steady",
                                                     frequency |-> call[t].frequency,
                                                     duration |-> call[t].duration]>>

\* a call that transitions from 10 Hz to 6 Hz has returned its buffer
C3_Witness ==
    /\ pc[1] = "done"
    /\ loc[1].begin_has /\ loc[1].begin_last = 10000
    /\ call[1].frequency = 6000
    /\ Len(loc[1].segments) = 2
    /\ loc[1].segments[1].kind = "transition"

\* C4: when generate(freq) has succeeded, the recorded prior frequency is
\* freq, the first call included.
C4_RecordedAfterSuccess ==
    \A t \in Threads :
        pc[t] = "done" => has_last /\ last_frequency = call[t].frequency

\* the first call on the orchestrator has succeeded, with a frequency that
\* is not the initial content of the model's last_frequency
C4_Witness ==
    /\ pc[1] = "done"
    /\ ~loc[1].begin_has
    /\ call[1].frequency = 7000
    /\ last_frequency = 7000

\* C5: a generate call that fails, at whatever step, leaves the recorded
\* prior frequency as it was when the call began.
C5_FailureLeavesPrior ==
    \A t \in Threads :
        pc[t] = "failed" =>
            /\ has_last = loc[t].begin_has
            /\ last_frequency = loc[t].begin_last

\* C6: with duration > 0 and a recorded prior that differs, the transition
\* duration is min(optimal duration, duration / 4), hence at most
\* duration / 4, and a steady segment of duration - transition duration
\* follows the transition.
C6_TransitionDurationCapped ==
    \A t \in Threads :
        (/\ loc[t].branch = "transition"
         /\ pc[t] # "l152"
         /\ RatPos(call[t].duration)) =>
            LET optimal == calculate_optimal_duration(loc[t].prior_duration,
                                                      call[t].frequency)
                quarter == RatQuarter(call[t].duration)
                td == loc[t].transition_duration
            IN /\ RatLe(td, quarter)
               /\ RatLe(td, optimal)
               /\ RatEq(td, optimal) \/ RatEq(td, quarter)
               /\ pc[t] \in Synthesized =>
                      /\ Len(loc[t].segments) = 2
                      /\ loc[t].segments[2].kind = "steady"
                      /\ loc[t].segments[2].frequency = call[t].frequency
                      /\ RatEq(loc[t].segments[2].duration,
                               RatSub(call[t].duration, td))
                      /\ RatPos(loc[t].segments[2].duration)

\* a 24 s call whose optimal duration (5 s) is below duration / 4 (6 s)
\* has synthesized both segments
C6_Witness ==
    /\ pc[1] = "done"
    /\ loc[1].branch = "transition"
    /\ call[1].duration = <<24, 1>>
    /\ RatEq(loc[1].transition_duration, <<5, 1>>)
    /\ Len(loc[1].segments) = 2

\* C9: for every frequency passed to generate, the call fails with
\* InvalidFrequency or every sinusoid it synthesizes has a frequency in
\* (0, 1000] Hz.
C9_ComponentsInRange ==
    \A t \in Threads :
        \/ loc[t].err = "InvalidFrequency"
        \/ \A c \in loc[t].audio.freqs : 0 < c /\ c <= 1000000

\* a call with a negative frequency, which no step of generate rejects,
\* has synthesized its components
C9_Witness ==
    /\ pc[1] = "done"
    /\ call[1].frequency = -50000
    /\ loc[1].audio.freqs # {}

----------------------------------------------------------------------------
(* Properties of the requests of several users, checked under SpecSessions *)

\* C1: the transition decision and the transition start of a call depend
\* only on the call's arguments and on the frequency last generated for
\* the same session; the calls of other sessions never change them.
C1_SessionIsolation ==
    \A t \in Threads :
        loc[t].branch # "" =>
            /\ (loc[t].branch = "transition")
                   <=> (loc[t].begin_session.has
                        /\ loc[t].begin_session.f # call[t].frequency)
            /\ loc[t].branch = "transition" /\ pc[t] \notin {"l152", "l158"}
                   => loc[t].prior_curve = loc[t].begin_session.f

----------------------------------------------------------------------------
(* Properties of overlapping calls, checked under SpecOverlap              *)

\* C2: within one call, the prior frequency compared at line 150, the one
\* passed to calculate_optimal_duration and the one the curve starts from
\* are one and the same value, also when calls overlap.
C2_OnePriorPerCall ==
    \A t \in Threads :
        loc[t].branch = "transition" =>
            /\ pc[t] # "l152" => loc[t].prior_duration = loc[t].prior_check
            /\ pc[t] \notin {"l152", "l158"} => loc[t].prior_curve = loc[t].prior_check

----------------------------------------------------------------------------
(* Properties of the pure functions, checked under SpecFn                  *)

\* C7: generate_overtones fails with InvalidFrequency exactly when the
\* fundamental is <= 0 or > 1000 Hz (1000 Hz itself is accepted), whatever
\* the duration and the amplitude, and then returns no buffer.
C7_InvalidFrequencyExactly ==
    fn = "generate_overtones" =>
        /\ (fn_result.err = "InvalidFrequency")
               <=> (fn_args[1] <= 0 \/ fn_args[1] > 1000000)
        /\ fn_result.err = "InvalidFrequency"
               => fn_result.parts = <<>> /\ fn_result.n = 0

\* a fundamental just above 1000 Hz is rejected although the duration is
\* not a valid one either
C7_Witness ==
    /\ fn = "generate_overtones"
    /\ fn_args[1] = 1000001
    /\ fn_args[2] = <<-1, 1>>
    /\ fn_result.err = "InvalidFrequency"

RECURSIVE Pow(_, _)
Pow(b, e) == IF e = 0 THEN 1 ELSE b * Pow(b, e - 1)

\* base * 0.7^(n-1)
HarmonicAmplitude(base, n) == (base \div Pow(10, n - 1)) * Pow(7, n - 1)

\* C8: the buffer generate_overtones returns sums the fundamental at the
\* base amplitude and exactly the harmonics n in 2..5 for which every j in
\* 2..n has fundamental * j <= 1000 Hz and base * 0.7^(j-1) >= 0.1, the
\* harmonic n at amplitude base * 0.7^(n-1).
C8_HarmonicsIncluded ==
    fn = "generate_overtones" /\ fn_result.err = "" =>
        LET fundamental == fn_args[1]
            base == fn_args[3]
            included == {n \in 2..5 :
                            \A j \in 2..n :
                                /\ fundamental * j <= 1000000
                                /\ HarmonicAmplitude(base, j) >= 100000000}
        IN /\ Len(fn_result.parts) = 1 + Cardinality(included)
           /\ fn_result.parts[1] = <<fundamental, base>>
           /\ \A n \in included :
                  fn_result.parts[n] = <<fundamental * n, HarmonicAmplitude(base, n)>>

\* 250 Hz at amplitude 0.5: harmonics 2, 3 and 4 (1000 Hz exactly) are
\* summed, harmonic 5 (1250 Hz) is not
C8_Witness ==
    /\ fn = "generate_overtones"
    /\ fn_args[1] = 250000
    /\ fn_args[3] = 500000000
    /\ fn_result.err = ""
    /\ Len(fn_result.parts) = 4

\* C10: for every target within 0.01 Hz of 10.0, 6.0 or 2.0 Hz whose
\* tabulated carrier (200, 288 or 256 Hz) lies within
\* [min_carrier, max_carrier], optimize_carrier_frequency returns that
\* carrier.
C10_TabulatedCarrierWithinTolerance ==
    fn = "optimize_carrier_frequency" =>
        \A tabulated \in {<<10000, 200000>>, <<6000, 288000>>, <<2000, 256000>>} :
            (/\ Abs(fn_args[1] - tabulated[1]) < 10
             /\ fn_args[2] <= tabulated[2]
             /\ tabulated[2] <= fn_args[3]) =>
                /\ fn_result.err = ""
                /\ fn_result.carrier = tabulated[2]

\* min_carrier <= carrier <= max_carrier
CarrierInRange(carrier, min_carrier, max_carrier) ==
    min_carrier <= carrier /\ carrier <= max_carrier

\* C11: for every target > 0 and min_carrier <= max_carrier, a carrier that
\* optimize_carrier_frequency returns lies in [min_carrier, max_carrier],
\* whether it comes from the table, from the multiplier scan or from the
\* fallback.
C11_CarrierWithinRange ==
    (/\ fn = "optimize_carrier_frequency"
     /\ fn_args[1] > 0
     /\ fn_args[2] <= fn_args[3]
     /\ fn_result.err = "") =>
        CarrierInRange(fn_result.carrier, fn_args[2], fn_args[3])

\* 6 Hz with the range [300, 600] Hz: the tabulated 288 Hz is out of range
\* and the scan answers instead
C11_Witness ==
    /\ fn = "optimize_carrier_frequency"
    /\ fn_args = <<6000, 300000, 600000>>
    /\ fn_result.err = ""
    /\ fn_result.carrier # 288000
    /\ fn_result.carrier # 300000

\* the integer m, halved while > 2, is within 0.01 of a canonical ratio
CanonicalMultiple(m) ==
    \E p \in {1, 2, 4, 8, 16, 32, 64, 128, 256, 512, 1024} :
        /\ m <= 2 * p
        /\ p = 1 \/ m > p
        /\ \E r \in {1000, 2000, 1500, 1333, 1250, 1200} :
               Abs(1000 * m - r * p) < 10 * p

\* C12: for a target that is not a core frequency, or whose tabulated
\* carrier is out of range, optimize_carrier_frequency returns target * m
\* for the smallest integer m >= ceil(min_carrier / target) with
\* target * m <= max_carrier whose halved value is within 0.01 of a
\* canonical ratio, and min_carrier when there is no such m.
C12_SmallestMatchingMultiplier ==
    (/\ fn = "optimize_carrier_frequency"
     /\ fn_args[1] > 0
     /\ \A tabulated \in {<<10000, 200000>>, <<6000, 288000>>, <<2000, 256000>>} :
            Abs(fn_args[1] - tabulated[1]) < 10
                => ~CarrierInRange(tabulated[2], fn_args[2], fn_args[3])) =>
        LET target == fn_args[1]
            matching == {m \in CeilDiv(fn_args[2], target)..TruncDiv(fn_args[3], target) :
                            target * m <= fn_args[3] /\ CanonicalMultiple(m)}
        IN /\ fn_result.err = ""
           /\ matching = {} => fn_result.carrier = fn_args[2]
           /\ matching # {} =>
                  /\ fn_result.carrier \div target \in matching
                  /\ fn_result.carrier = target * (fn_result.carrier \div target)
                  /\ \A m \in matching : fn_result.carrier <= target * m

\* C13: whenever 0 < target <= min_carrier and max_carrier >= 2 * min_carrier,
\* a carrier c that optimize_carrier_frequency returns is in a harmonic
\* relationship with the target: |_decompose_ratio(c / target) - 1| < 0.1.
C13_CarrierHarmonicWithTarget ==
    (/\ fn = "optimize_carrier_frequency"
     /\ 0 < fn_args[1]
     /\ fn_args[1] <= fn_args[2]
     /\ fn_args[3] >= 2 * fn_args[2]
     /\ fn_result.err = "") =>
        NearUnison(decompose_ratio(fn_result.carrier, fn_args[1]))

\* 8 Hz with the range [200, 500] Hz: the scan passes the multipliers 25 to
\* 31 and returns 8 * 32 = 256 Hz
C13_Witness ==
    /\ fn = "optimize_carrier_frequency"
    /\ fn_args = <<8000, 200000, 500000>>
    /\ fn_result.err = ""
    /\ fn_result.carrier = 256000

\* C14: for every pair r1, r2 of canonical ratios, _decompose_ratio applied
\* to r1 * r2, halved while > 2, returns 1.0.
C14_ProductsAreHarmonic ==
    fn = "decompose_ratio" =>
        \A r1, r2 \in {1000, 1200, 1250, 1333, 1500, 2000} :
            fn_args = HalvedProduct(r1, r2) => fn_result.remainder = <<1, 1>>

\* C15: find_nearest_harmonic(base, target) returns the candidate base * r
\* closest to the target, with its ratio r; among equally close candidates
\* it returns the one whose ratio comes first in the order
\* [1.0, 2.0, 1.5, 1.333, 1.25, 1.2].
C15_NearestHarmonicFirstOnTies ==
    fn = "find_nearest_harmonic" =>
        LET order == <<1000, 2000, 1500, 1333, 1250, 1200>>
            distance(i) == Abs(fn_args[1] * order[i] - 1000 * fn_args[2])
        IN \E i \in 1..6 :
               /\ fn_result.ratio = order[i]
               /\ fn_result.harmonic = fn_args[1] * order[i]
               /\ \A j \in 1..6 : distance(i) <= distance(j)
               /\ \A j \in 1..(i - 1) : distance(i) < distance(j)

\* base 100 Hz, target 122.5 Hz: 125 Hz (1.25) and 120 Hz (1.2) are equally
\* close, and 1.25 comes first in the order
C15_Witness ==
    /\ fn = "find_nearest_harmonic"
    /\ fn_args = <<100000, 122500>>
    /\ fn_result.ratio = 1250
    /\ fn_result.harmonic = 125000000

\* C16: validate_frequency_combination(f1, f2, max_ratio) is false whenever
\* max(f1, f2) / min(f1, f2) exceeds max_ratio and that ratio, halved while
\* > 2, is not within 0.01 of a canonical ratio.
C16_RejectsNonHarmonicBeyondLimit ==
    (/\ fn = "validate_frequency_combination"
     /\ Min(fn_args[1], fn_args[2]) > 0) =>
        LET num == Max(fn_args[1], fn_args[2])
            den == Min(fn_args[1], fn_args[2])
            halved == HalvedDen(num, den)
        IN (/\ 1000 * num > fn_args[3] * den
            /\ \A r \in {1000, 1200, 1250, 1333, 1500, 2000} :
                   ~(Abs(1000 * num - r * halved) < 10 * halved)) =>
               fn_result.err = "" /\ ~fn_result.ok

\* C17: for each of the linear, exponential and sigmoid curves and every
\* start, end and duration that yield N >= 1 samples, the curve has exactly
\* N = floor(sample_rate * duration) samples, the first equal to start and
\* the last equal to end.
C17_CurveEndpoints ==
    (fn = "transition" /\ NumSamples(fn_args[4]) >= 1) =>
        /\ fn_result.err = ""
        /\ ~fn_result.nan
        /\ Len(fn_result.f) = NumSamples(fn_args[4])
        /\ fn_result.f[1] = fn_args[2]
        /\ fn_result.f[Len(fn_result.f)] = fn_args[3]

\* C18: get_transition_points fails with LengthMismatch exactly when the
\* two sequences differ in length; otherwise it returns len - 1 triples
\* (none for an empty or one-element input), the i-th being
\* (timestamps[i], timestamps[i+1], timestamps[i+1] - timestamps[i]), so
\* that each triple ends where the next one starts.
C18_TransitionPoints ==
    fn = "get_transition_points" =>
        LET frequencies == fn_args[1]
            timestamps == fn_args[2]
            points == fn_result.points
        IN /\ (fn_result.err = "LengthMismatch") <=> (Len(frequencies) # Len(timestamps))
           /\ fn_result.err \in {"", "LengthMismatch"}
           /\ fn_result.err = "" =>
                  /\ Len(points) = IF Len(frequencies) = 0 THEN 0
                                   ELSE Len(frequencies) - 1
                  /\ \A i \in 1..Len(points) :
                         points[i] = <<timestamps[i], timestamps[i + 1],
                                       timestamps[i + 1] - timestamps[i]>>
                  /\ \A i \in 1..(Len(points) - 1) : points[i][2] = points[i + 1][1]

\* three frequencies at the times 0, 5 and 12 give the triples (0, 5, 5)
\* and (5, 12, 7)
C18_Witness ==
    /\ fn = "get_transition_points"
    /\ Len(fn_args[1]) = 3
    /\ fn_args[2] = <<0, 5, 12>>
    /\ fn_result.err = ""
    /\ fn_result.points = <<<<0, 5, 5>>, <<5, 12, 7>>>>

\* C19: the bands are the half-open ranges [20, 250), [250, 4000) and
\* [4000, 20000) Hz, so that when process applies gains for several bands
\* every bin, those at exactly 250 Hz and 4000 Hz included, is scaled by
\* the gain of one band at most.
C19_BinInOneBand ==
    (fn = "process" /\ fn_result.err = "") =>
        \A b \in fn_args[1] :
            /\ Cardinality(fn_result.scaled[b]) <= 1
            /\ fn_result.scaled[b] =
                   {fn_args[2][i][1] : i \in 1..Len(fn_args[2])}
                   \cap ((IF 20 <= b /\ b < 250 THEN {"low"} ELSE {})
                         \cup (IF 250 <= b /\ b < 4000 THEN {"mid"} ELSE {})
                         \cup (IF 4000 <= b /\ b < 20000 THEN {"high"} ELSE {}))

\* the orderings of the entries of a mapping
Orderings(gains) ==
    {[i \in 1..Len(gains) |-> gains[p[i]]] :
         p \in {q \in [1..Len(gains) -> 1..Len(gains)] :
                    \A i, j \in 1..Len(gains) : i # j => q[i] # q[j]}}

\* C20: process yields the same output for every ordering of the same
\* band -> gain entries of the gains mapping, the fixed order low, mid,
\* high among them.
C20_OrderIndependent ==
    fn = "process" =>
        \A gains \in Orderings(fn_args[2]) :
            /\ process(fn_args[1], gains).err = fn_result.err
            /\ process(fn_args[1], gains).db = fn_result.db

\* high, mid and low applied in this order to a signal with bins at 250 Hz
\* and 4000 Hz
C20_Witness ==
    /\ fn = "process"
    /\ 250 \in fn_args[1]
    /\ fn_args[2] = <<<<"high", 6>>, <<"mid", -3>>, <<"low", 6>>>>
    /\ fn_result.err = ""
    /\ fn_result.db[250] = 3
    /\ fn_result.db[4000] = 3
    /\ fn_result.db[1000] = -3

----------------------------------------------------------------------------
(* C21: mix_background returns the shape it was given, for every main      *)
(* buffer length L >= 1, both background types, with or without equalizer  *)
(* gains: a mono buffer of L samples gives a mono buffer of L samples, a    *)
(* stereo pair gives a stereo pair with channels of the original length,   *)
(* and the peak of every returned channel is at most 1.0.                  *)
C21_MixKeepsShape ==
    (fn = "mix_background" /\ fn_args[4] \in {<<>>, <<<<"low", -3>>, <<"high", 6>>>>})
    => /\ fn_result.err = ""
       /\ ~fn_result.nan
       /\ fn_result.stereo = fn_args[1].stereo
       /\ Len(fn_result.channels) = Len(fn_args[1].channels)
       /\ \A c \in 1..Len(fn_result.channels) :
              /\ Len(fn_result.channels[c]) = Len(fn_args[1].channels[c])
              /\ Peak(fn_result.channels[c]) <= 1000

----------------------------------------------------------------------------
(* C22: after generate's normalization both channels have a peak of at     *)
(* most 1.0, and both were divided by one and the same factor, the larger  *)
(* of the two channel peaks, and only when it exceeds 1: the ratio between *)
(* the left and the right sample of every pair is unchanged.               *)
C22_JointNormalization ==
    (fn = "finish" /\ fn_result.err = "")
    => \E factor \in {1000, Max(Peak(fn_result.faded_left), Peak(fn_result.faded_right))} :
          /\ factor > 1000 <=> (Peak(fn_result.faded_left) > 1000
                                \/ Peak(fn_result.faded_right) > 1000)
          /\ \A i \in 1..Len(fn_result.left) :
                /\ fn_result.left[i] = <<fn_result.faded_left[i], factor>>
                /\ fn_result.right[i] = <<fn_result.faded_right[i], factor>>
                /\ Abs(fn_result.left[i][1]) <= fn_result.left[i][2]
                /\ Abs(fn_result.right[i][1]) <= fn_result.right[i][2]

\* a buffer whose left channel alone exceeds full scale: the right channel
\* was divided by the left one's peak
C22_Witness ==
    /\ fn = "finish"
    /\ fn_result.err = ""
    /\ Peak(fn_result.faded_left) > 1000
    /\ Peak(fn_result.faded_right) < 1000
    /\ \E i \in 1..Len(fn_result.right) :
          fn_result.right[i][1] # 0 /\ fn_result.right[i][2] = Peak(fn_result.faded_left)

(* C23: every sample that reaches the 16-bit encoder lies in [-1, 1], so   *)
(* the encoded value, sample * 32767 truncated toward zero, lies in        *)
(* [-32767, 32767] and is stored without wrapping.                         *)
C23_EncoderInRange ==
    (fn = "finish" /\ fn_result.err = "")
    => \A i \in 1..Len(fn_result.left) :
          \A ch \in {<<fn_result.left, fn_result.pcm_left>>,
                     <<fn_result.right, fn_result.pcm_right>>} :
              /\ Abs(ch[1][i][1]) <= ch[1][i][2]
              /\ ch[2][i] = Scaled16(ch[1][i])
              /\ ch[2][i] >= -32767
              /\ ch[2][i] <= 32767

\* the peak sample of a normalized buffer was encoded as 32767 or -32767,
\* a smaller one of the other channel as less
C23_Witness ==
    /\ fn = "finish"
    /\ fn_result.err = ""
    /\ Peak(fn_result.faded_left) > 1000
    /\ \E i \in 1..Len(fn_result.pcm_left) : Abs(fn_result.pcm_left[i]) = 32767
    /\ \E i \in 1..Len(fn_result.pcm_right) :
          fn_result.pcm_right[i] # 0 /\ Abs(fn_result.pcm_right[i]) < 32767

(* C26: in every stereo buffer generate produces, the first and the last   *)
(* sample of both channels are exactly zero: the fade-in starts at 0, the  *)
(* fade-out ends at 0, and normalization and encoding keep zero.           *)
C26_EndsAreZero ==
    (fn = "finish" /\ fn_result.err = "")
    => \A ch \in {fn_result.left, fn_result.right} :
          /\ ch[1][1] = 0
          /\ ch[Len(ch)][1] = 0
          /\ audio_16bit(ch)[1] = 0
          /\ audio_16bit(ch)[Len(ch)] = 0

\* a buffer longer than the two ramps, with nonzero samples at both ends
\* before the fades and a nonzero sample between them after encoding
C26_Witness ==
    /\ fn = "finish"
    /\ fn_result.err = ""
    /\ Len(fn_args[1]) > 2 * fade_length - 1
    /\ fn_args[1][1] + fn_args[3][1] # 0
    /\ fn_args[1][Len(fn_args[1])] + fn_args[3][Len(fn_args[3])] # 0
    /\ fn_result.pcm_left[1] = 0
    /\ fn_result.pcm_left[Len(fn_result.pcm_left)] = 0
    /\ \E i \in 1..Len(fn_result.pcm_left) : fn_result.pcm_left[i] # 0

----------------------------------------------------------------------------
\* the call of thread t is under way
Calling(t) == pc[t] # "idle"

(* C25: generate with a duration <= 0, or one with duration * sample rate   *)
(* below 1, fails fast, with or without a prior frequency and for every    *)
(* transition type: the call ends in an error and no encoded buffer is     *)
(* handed to the sink.                                                     *)
C25_EmptyBufferFails ==
    \A t \in Threads :
        (Calling(t) /\ (~RatPos(call[t].duration) \/ NumSamples(call[t].duration) < 1))
        => /\ pc[t] \notin {"l223", "l233", "done"}
           /\ ~loc[t].returned
           /\ loc[t].err # "OSError"

\* a call of half a sample, made after a prior frequency was recorded, has
\* taken the transition branch and failed in the synthesis
C25_Witness ==
    /\ pc[1] = "failed"
    /\ call[1].duration = <<1, 40>>
    /\ loc[1].begin_has
    /\ loc[1].branch = "transition"
    /\ loc[1].err = "ValueError"

(* C27: for every duration, a call with a transition segment produces the  *)
(* same number of samples per channel as one without: exactly              *)
(* floor(sample rate * duration), the left, right and isochronic buffers   *)
(* being of equal length.                                                  *)
C27_TransitionKeepsLength ==
    \A t \in Threads :
        (pc[t] \in {"l223", "l233", "done"} /\ loc[t].branch = "transition")
        => /\ loc[t].audio.n_left = loc[t].audio.n_right
           /\ loc[t].audio.n_left = loc[t].audio.n_iso
           /\ loc[t].n = NumSamples(call[t].duration)

\* the duration is long enough to synthesize: the buffer holds both fade
\* ramps and the transition curve has more than one sample
LongEnough(duration) ==
    /\ NumSamples(duration) >= fade_length
    /\ NumSamples(RatQuarter(duration)) >= 2

(* C29: for a duration long enough to synthesize and any frequency >= 0    *)
(* (the recorded prior frequency, if any, being one as well), generate     *)
(* fails with InvalidFrequency exactly when frequency > 500 Hz; every      *)
(* frequency in [0, 500], exactly 0 included, is synthesized without error.*)
C29_InvalidAbove500 ==
    \A t \in Threads :
        (/\ Calling(t)
         /\ LongEnough(call[t].duration)
         /\ call[t].frequency >= 0
         /\ loc[t].begin_has => loc[t].begin_last >= 0)
        => /\ loc[t].err = "InvalidFrequency" => call[t].frequency > 500000
           /\ call[t].frequency > 500000
                  => /\ pc[t] \notin Synthesized
                     /\ pc[t] = "failed" => loc[t].err = "InvalidFrequency"
           /\ (call[t].frequency <= 500000 /\ pc[t] = "failed")
                  => loc[t].err = "OSError"

----------------------------------------------------------------------------
(* C24: every invocation of generate by the service is preceded, within    *)
(* the same request, by the safety gate's successful validation of         *)
(* frequency, volume and duration: a request out of bounds never reaches   *)
(* the synthesis core.                                                     *)
C24_GateBeforeGenerate ==
    \A t \in Threads :
        (Calling(t) /\ request[t].route = "generate_audio")
        => validate_session_parameters(call[t].frequency, call[t].volume,
                                       call[t].duration)

(* C28: across any sequence of validate_user_safety calls MAX_FREQUENCY    *)
(* never increases: after an accepted user it is the smaller of its value  *)
(* before and the user's max_frequency, a rejected user (a medical         *)
(* condition without an emergency contact) leaves it as it was, and the    *)
(* lowered limit governs validate_frequency for every later caller.        *)
C28_LimitNeverRises ==
    [][/\ MAX_FREQUENCY' <= MAX_FREQUENCY
       /\ request'[1].route = "validate_user_safety"
              => /\ request'[1].status = 200
                        <=> ~(request'[1].data.has_medical_condition
                              /\ ~request'[1].data.emergency_contact)
                 /\ MAX_FREQUENCY' = IF request'[1].status = 200
                                     THEN Min(MAX_FREQUENCY,
                                              request'[1].data.max_frequency)
                                     ELSE MAX_FREQUENCY
       /\ (/\ request'[1].route = "generate_audio"
           /\ "duration" \in request'[1].data.keys
           /\ request'[1].data.target_frequency > MAX_FREQUENCY')
              => /\ request'[1].status = 400
                 /\ ~Calling(1)']_vars

\* a frequency that was served before a user lowered the limit is refused
\* after it
C28_Witness ==
    /\ MAX_FREQUENCY = 40000
    /\ Len(sessions) = 1
    /\ sessions[1].target_frequency = 50000
    /\ request[1].route = "generate_audio"
    /\ request[1].data.target_frequency = 50000
    /\ request[1].status = 400

\* the SESSION_STOPPED records of session s
StoppedLogs(s) ==
    {i \in 1..Len(safety_logs) :
        safety_logs[i] = [session_id |-> s, event_type |-> "SESSION_STOPPED"]}

(* C30: a session's end_time is set at most once.  stop_session on the     *)
(* caller's own session that has not ended sets end_time and records       *)
(* exactly one SESSION_STOPPED log; on a session that has ended, and on    *)
(* another user's session, it changes nothing.                             *)
C30_EndTimeSetOnce ==
    [][\A s \in 1..Len(sessions) :
          /\ sessions[s].end_time # 0
                 => /\ sessions'[s].end_time = sessions[s].end_time
                    /\ StoppedLogs(s)' = StoppedLogs(s)
          /\ Cardinality(StoppedLogs(s)') <= 1
          /\ \A t \in Threads :
                 (request'[t] # request[t] /\ request'[t].route = "stop_session"
                  /\ request'[t].session_id = s
                  /\ sessions[s].user_id # request'[t].user_id)
                     => /\ request'[t].status = 404
                        /\ sessions' = sessions
                        /\ safety_logs' = safety_logs]_vars

====
